---- MODULE Spec2Model ----
(***************************************************************************)
(* Eviction reschedule hook: the admission handler handleEviction, the     *)
(* cluster-state accessor ClientImpl it calls, and the Kubernetes objects  *)
(* (pods, the CouchbaseCluster resource) both act on.                      *)
(*                                                                         *)
(* Every accessor call of handleEviction is one remote call against the    *)
(* API server, so one call is one atomic step; several admission requests  *)
(* are in flight at once and their steps interleave.  The operator that    *)
(* recreates pods and the user who deletes them are the environment.       *)
(***************************************************************************)
EXTENDS Integers, Sequences, FiniteSets, TLC

(***************************************************************************)
(* Bounds of the model.                                                    *)
(***************************************************************************)
MaxPods == 2
MaxReqs == 2
MaxCreates == 2

PodUniverse == <<"couchbase-1", "couchbase-2", "couchbase-3", "couchbase-4">>
PodNames == {PodUniverse[i] : i \in 1..MaxPods}
Reqs == 1..MaxReqs

(***************************************************************************)
(* Program constants.                                                      *)
(***************************************************************************)
CouchbasePodLabelKey == "app"
CouchbasePodLabelValue == "couchbase"
RescheduleHookPodsListAnnotation == "reschedule.hook/rescheduledPod"
RescheduleHookTrackingAnnotationPrefix == "reschedule.hook/"
RescheduleTrue == "true"
RescheduleAnnotation == "cao.couchbase.com/reschedule"
CouchbaseClusterLabelKey == "couchbase_cluster"
InPlaceUpgradeStrategyKey == "upgradeProcess"
InPlaceUpgradeStrategyValue == "InPlaceUpgrade"

StatusNotFound == 404
StatusTooManyRequests == 429
StatusInternalServerError == 500

StatusReasonNotFound == "NotFound"
StatusReasonTooManyRequests == "TooManyRequests"
StatusReasonInternalError == "InternalError"
StatusReasonInvalid == "Invalid"

(***************************************************************************)
(* Values the environment can put on the objects.                          *)
(***************************************************************************)
ClusterNames == {"couchbase-cluster"}
AppLabelValues == {CouchbasePodLabelValue, "not-couchbase"}
MarkerValues == {RescheduleTrue, "false"}
UpgradeProcessValues == {InPlaceUpgradeStrategyValue, "SwapRebalance"}
SomeOtherAnnotation == "someOtherAnnotation/annotation"
SomeValue == <<"some-value">>

NoPod == [exists |-> FALSE]
NoConfig == [stage |-> "none"]
NoResponse == [none |-> TRUE]
NoReview == [written |-> FALSE]
RequestUIDs == <<"uid-1", "uid-2", "uid-3", "uid-4">>
NotFound == "NotFound"
NoError == ""

(***************************************************************************)
(* Go maps: a lookup of a missing key yields the zero value "".            *)
(***************************************************************************)
Lookup(m, k) == IF k \in DOMAIN m THEN m[k] ELSE ""

Exists(m, k) == k \in DOMAIN m

(***************************************************************************)
(* A JSON merge patch of metadata.annotations: a key with a value is set,  *)
(* a key with null is deleted if present, every other key is kept.         *)
(***************************************************************************)
MergeSet(m, k, v) == [x \in DOMAIN m \cup {k} |-> IF x = k THEN v ELSE m[x]]

MergeDelete(m, k) == [x \in DOMAIN m \ {k} |-> m[x]]

(***************************************************************************)
(* encoding/json on a []string: the document is the sequence of its        *)
(* tokens, "[" s1 "," s2 ... "]".  An annotation value is a token          *)
(* sequence; a plain string value is the one-token sequence.               *)
(***************************************************************************)
RECURSIVE JsonElements(_)
JsonElements(list) ==
    IF Len(list) = 0 THEN <<>>
    ELSE IF Len(list) = 1 THEN <<list[1]>>
    ELSE <<list[1], ",">> \o JsonElements(Tail(list))

JsonMarshal(list) == <<"[">> \o JsonElements(list) \o <<"]">>

JsonUnmarshal(doc) ==
    LET inner == SubSeq(doc, 2, Len(doc) - 1)
    IN  SelectSeq(inner, LAMBDA t : t # ",")

(***************************************************************************)
(* slices.Contains, slices.DeleteFunc(list, s == pod), append.             *)
(***************************************************************************)
Contains(list, pod) == \E i \in 1..Len(list) : list[i] = pod

DeleteFunc(list, pod) == SelectSeq(list, LAMBDA s : s # pod)

(***************************************************************************)
(* Admission responses.  denyEviction takes a reason but stores            *)
(* StatusReasonInvalid in the status it builds.                            *)
(***************************************************************************)
denyEviction(code, reason, message) ==
    [Allowed |-> FALSE, Status |-> "Failure", Message |-> message,
     Reason |-> StatusReasonInvalid, Code |-> code]

allowEviction ==
    [Allowed |-> TRUE, Status |-> "", Message |-> "", Reason |-> "", Code |-> 0]

VARIABLES
    TrackRescheduledPods,  \* the build-time flag of reschedule.go
    pods,                  \* pod name -> the pod object, or NoPod
    incarnation,           \* pod name -> number of pods created under it
    clusters,              \* cluster name -> the CouchbaseCluster object
    req,                   \* request -> the handleEviction invocation
    config                 \* the Config under construction, or NoConfig

vars == <<TrackRescheduledPods, pods, incarnation, clusters, req, config>>

(***************************************************************************)
(* The tracked-pods list as stored on the cluster resource (what           *)
(* GetClusterInfoList decodes): absent or empty annotation is "[]".        *)
(***************************************************************************)
StoredPodsList(cluster) ==
    IF cluster \notin DOMAIN clusters THEN <<>>
    ELSE LET ann == clusters[cluster].annotations
         IN  IF ~Exists(ann, RescheduleHookPodsListAnnotation)
                \/ ann[RescheduleHookPodsListAnnotation] = <<>>
             THEN <<>>
             ELSE JsonUnmarshal(ann[RescheduleHookPodsListAnnotation])

(***************************************************************************)
(* A pod has a tracking entry on a cluster resource when the resource      *)
(* records it: in the tracked-pods list or under its own tracking key.     *)
(***************************************************************************)
Tracked(cluster, pod) ==
    /\ cluster \in DOMAIN clusters
    /\ \/ Contains(StoredPodsList(cluster), pod)
       \/ Exists(clusters[cluster].annotations,
                 RescheduleHookTrackingAnnotationPrefix \o pod)

IdleReq ==
    [pc |-> "idle", name |-> "", pod |-> NoPod, list |-> <<>>,
     dryRun |-> FALSE, remove |-> FALSE, sawTracked |-> FALSE, after |-> {},
     calls |-> <<>>,
     err |-> NoError, cause |-> NoError, response |-> NoResponse,
     uid |-> "", review |-> NoReview]

NewPod(name, uid, app, marker) ==
    [exists |-> TRUE, name |-> name, uid |-> uid,
     Labels |-> [x \in {CouchbasePodLabelKey, CouchbaseClusterLabelKey} |->
                    IF x = CouchbasePodLabelKey THEN app
                    ELSE "couchbase-cluster"],
     Annotations |-> IF marker = "" THEN <<>>
                     ELSE [x \in {RescheduleAnnotation} |-> marker]]

Init ==
    /\ TrackRescheduledPods \in BOOLEAN
    /\ pods = [n \in PodNames |-> NoPod]
    /\ incarnation = [n \in PodNames |-> 0]
    /\ \E up \in UpgradeProcessValues \cup {""} :
         clusters = [c \in ClusterNames |->
            [spec |-> IF up = "" THEN <<>>
                      ELSE [x \in {InPlaceUpgradeStrategyKey} |-> up],
             annotations |-> [x \in {SomeOtherAnnotation} |-> SomeValue]]]
    /\ req = [r \in Reqs |-> [IdleReq EXCEPT !.uid = RequestUIDs[r]]]
    /\ config = NoConfig

(***************************************************************************)
(* ClientImpl.GetPod: the pod of that name, or the not-found error.        *)
(***************************************************************************)
GetPod(name) ==
    IF pods[name] = NoPod THEN [pod |-> NoPod, err |-> NotFound]
    ELSE [pod |-> pods[name], err |-> NoError]

(***************************************************************************)
(* GetClusterInfo had it also decoded the tracked-pods list annotation     *)
(* into rescheduleHookPodsList.                                            *)
(***************************************************************************)
GetClusterInfoWithList(name) ==
    IF name \notin DOMAIN clusters
    THEN [err |-> NotFound]
    ELSE LET cluster == clusters[name]
             found == Exists(cluster.spec, InPlaceUpgradeStrategyKey)
         IN  IF ~found
             THEN [err |-> "error reading cluster upgrade strategy"]
             ELSE [err |-> NoError,
                   clusterAnnotations |-> cluster.annotations,
                   rescheduleHookPodsList |-> StoredPodsList(name),
                   inPlaceUpgrade |->
                       cluster.spec[InPlaceUpgradeStrategyKey]
                           = InPlaceUpgradeStrategyValue]

(***************************************************************************)
(* ClientImpl.GetClusterInfo: fetches the cluster, reads                   *)
(* spec.upgradeProcess (an error when the field is absent) and returns the *)
(* annotations and the in-place flag.  rescheduleHookPodsList is not set   *)
(* and keeps the zero value of a Go slice.                                 *)
(***************************************************************************)
GetClusterInfo(name) ==
    IF name \notin DOMAIN clusters
    THEN [err |-> NotFound]
    ELSE LET cluster == clusters[name]
             found == Exists(cluster.spec, InPlaceUpgradeStrategyKey)
         IN  IF ~found
             THEN [err |-> "error reading cluster upgrade strategy"]
             ELSE [err |-> NoError,
                   clusterAnnotations |-> cluster.annotations,
                   rescheduleHookPodsList |-> <<>>,
                   inPlaceUpgrade |->
                       cluster.spec[InPlaceUpgradeStrategyKey]
                           = InPlaceUpgradeStrategyValue]

(***************************************************************************)
(* removeResourceAnnotation with a patch that sets the annotation to the   *)
(* empty value instead of null.                                            *)
(***************************************************************************)
removeResourceAnnotationSetsEmpty(annotations, annotation) ==
    MergeSet(annotations, annotation, <<>>)

(***************************************************************************)
(* ClientImpl.addResourceAnnotation / removeResourceAnnotation on the      *)
(* cluster resource: the annotations after the merge patch.                *)
(***************************************************************************)
addResourceAnnotation(annotations, annotation, value) ==
    MergeSet(annotations, annotation, value)

removeResourceAnnotation(annotations, annotation) ==
    MergeDelete(annotations, annotation)

(***************************************************************************)
(* ClientImpl.AddRescheduleHookTrackingAnnotation and                      *)
(* ClientImpl.RemoveRescheduleHookTrackingAnnotation: the cluster          *)
(* resource's annotations after the patch of the pod's tracking flag.      *)
(***************************************************************************)
AddRescheduleHookTrackingAnnotation(annotations, podName) ==
    addResourceAnnotation(annotations,
                          RescheduleHookTrackingAnnotationPrefix \o podName,
                          <<RescheduleTrue>>)

RemoveRescheduleHookTrackingAnnotation(annotations, podName) ==
    removeResourceAnnotation(annotations,
                             RescheduleHookTrackingAnnotationPrefix \o podName)

(***************************************************************************)
(* PatchRescheduleHookPodsList storing the encoding of every list, the     *)
(* empty one included.                                                     *)
(***************************************************************************)
PatchRescheduleHookPodsListKeepsEmpty(annotations, list) ==
    addResourceAnnotation(annotations, RescheduleHookPodsListAnnotation,
                          JsonMarshal(list))

(***************************************************************************)
(* ClientImpl.PatchRescheduleHookPodsList: an empty list removes the list  *)
(* annotation, any other list is stored JSON-encoded.                      *)
(***************************************************************************)
PatchRescheduleHookPodsList(annotations, list) ==
    IF Len(list) = 0
    THEN removeResourceAnnotation(annotations, RescheduleHookPodsListAnnotation)
    ELSE addResourceAnnotation(annotations, RescheduleHookPodsListAnnotation,
                               JsonMarshal(list))

(***************************************************************************)
(* ReschedulePod with a patch that takes the marker off the pod.           *)
(***************************************************************************)
ReschedulePodClears(pod) ==
    [pod EXCEPT !.Annotations =
        MergeDelete(pod.Annotations, RescheduleAnnotation)]

(***************************************************************************)
(* ClientImpl.ReschedulePod: the pod after the marker patch.               *)
(***************************************************************************)
ReschedulePod(pod) ==
    [pod EXCEPT !.Annotations =
        MergeSet(pod.Annotations, RescheduleAnnotation, RescheduleTrue)]

(***************************************************************************)
(* What one stretch of handleEviction between two accessor calls decides:  *)
(* the response it returns, or the accessor call it makes next.            *)
(***************************************************************************)
Return(response) ==
    [pc |-> "done", response |-> response, remove |-> FALSE, list |-> <<>>]

Continue(pc) ==
    [pc |-> pc, response |-> NoResponse, remove |-> FALSE, list |-> <<>>]

ContinuePatch(remove, list) ==
    [pc |-> "PatchList", response |-> NoResponse, remove |-> remove,
     list |-> list]

(***************************************************************************)
(* handleEvictionGetPod with the tracking step placed before the marker    *)
(* check.                                                                  *)
(***************************************************************************)
handleEvictionGetPodTrackingFirst(got) ==
    IF got.err # NoError
    THEN IF got.err = NotFound
         THEN Return(allowEviction)
         ELSE Return(denyEviction(StatusInternalServerError,
                         StatusReasonInternalError, "Failed to get pod"))
    ELSE IF Lookup(got.pod.Labels, CouchbasePodLabelKey) # CouchbasePodLabelValue
    THEN Return(allowEviction)
    ELSE IF TrackRescheduledPods
    THEN Continue("GetClusterInfo")
    ELSE IF /\ Exists(got.pod.Annotations, RescheduleAnnotation)
            /\ got.pod.Annotations[RescheduleAnnotation] = RescheduleTrue
    THEN Return(denyEviction(StatusTooManyRequests,
                    StatusReasonTooManyRequests,
                    "Couchbase pod awaiting reschedule"))
    ELSE Continue("ReschedulePod")

(***************************************************************************)
(* handleEvictionGetPod with the marker check placed before the label      *)
(* check.                                                                  *)
(***************************************************************************)
handleEvictionGetPodMarkerFirst(got) ==
    IF got.err # NoError
    THEN IF got.err = NotFound
         THEN Return(allowEviction)
         ELSE Return(denyEviction(StatusInternalServerError,
                         StatusReasonInternalError, "Failed to get pod"))
    ELSE IF /\ Exists(got.pod.Annotations, RescheduleAnnotation)
            /\ got.pod.Annotations[RescheduleAnnotation] = RescheduleTrue
    THEN Return(denyEviction(StatusTooManyRequests,
                    StatusReasonTooManyRequests,
                    "Couchbase pod awaiting reschedule"))
    ELSE IF Lookup(got.pod.Labels, CouchbasePodLabelKey) # CouchbasePodLabelValue
    THEN Return(allowEviction)
    ELSE IF TrackRescheduledPods
    THEN Continue("GetClusterInfo")
    ELSE Continue("ReschedulePod")

(***************************************************************************)
(* handleEvictionGetPod without the marker check.                          *)
(***************************************************************************)
handleEvictionGetPodNoMarkerCheck(got) ==
    IF got.err # NoError
    THEN IF got.err = NotFound
         THEN Return(allowEviction)
         ELSE Return(denyEviction(StatusInternalServerError,
                         StatusReasonInternalError, "Failed to get pod"))
    ELSE IF Lookup(got.pod.Labels, CouchbasePodLabelKey) # CouchbasePodLabelValue
    THEN Return(allowEviction)
    ELSE IF TrackRescheduledPods
    THEN Continue("GetClusterInfo")
    ELSE Continue("ReschedulePod")

(***************************************************************************)
(* handleEvictionGetPod allowing the eviction on every GetPod error.       *)
(***************************************************************************)
handleEvictionGetPodAnyErrorAllows(got) ==
    IF got.err # NoError
    THEN Return(allowEviction)
    ELSE IF Lookup(got.pod.Labels, CouchbasePodLabelKey) # CouchbasePodLabelValue
    THEN Return(allowEviction)
    ELSE IF /\ Exists(got.pod.Annotations, RescheduleAnnotation)
            /\ got.pod.Annotations[RescheduleAnnotation] = RescheduleTrue
    THEN Return(denyEviction(StatusTooManyRequests,
                    StatusReasonTooManyRequests,
                    "Couchbase pod awaiting reschedule"))
    ELSE IF TrackRescheduledPods
    THEN Continue("GetClusterInfo")
    ELSE Continue("ReschedulePod")

(***************************************************************************)
(* handleEvictionGetPod taking the marker key for the marker whatever its  *)
(* value.                                                                  *)
(***************************************************************************)
handleEvictionGetPodKeyOnly(got) ==
    IF got.err # NoError
    THEN IF got.err = NotFound
         THEN Return(allowEviction)
         ELSE Return(denyEviction(StatusInternalServerError,
                         StatusReasonInternalError, "Failed to get pod"))
    ELSE IF Lookup(got.pod.Labels, CouchbasePodLabelKey) # CouchbasePodLabelValue
    THEN Return(allowEviction)
    ELSE IF Exists(got.pod.Annotations, RescheduleAnnotation)
    THEN Return(denyEviction(StatusTooManyRequests,
                    StatusReasonTooManyRequests,
                    "Couchbase pod awaiting reschedule"))
    ELSE IF TrackRescheduledPods
    THEN Continue("GetClusterInfo")
    ELSE Continue("ReschedulePod")

(***************************************************************************)
(* handleEviction from the result of client.GetPod to its next accessor    *)
(* call: the not-found and error checks, the label check, the marker check *)
(* and the TrackRescheduledPods switch.                                    *)
(***************************************************************************)
handleEvictionGetPod(got) ==
    IF got.err # NoError
    THEN IF got.err = NotFound
         THEN Return(allowEviction)
         ELSE Return(denyEviction(StatusInternalServerError,
                         StatusReasonInternalError, "Failed to get pod"))
    ELSE IF Lookup(got.pod.Labels, CouchbasePodLabelKey) # CouchbasePodLabelValue
    THEN Return(allowEviction)
    ELSE IF /\ Exists(got.pod.Annotations, RescheduleAnnotation)
            /\ got.pod.Annotations[RescheduleAnnotation] = RescheduleTrue
    THEN Return(denyEviction(StatusTooManyRequests,
                    StatusReasonTooManyRequests,
                    "Couchbase pod awaiting reschedule"))
    ELSE IF TrackRescheduledPods
    THEN Continue("GetClusterInfo")
    ELSE Continue("ReschedulePod")

(***************************************************************************)
(* handlePreviouslyRescheduledPodsList going on to the marker patch when   *)
(* the cluster info could not be fetched.                                  *)
(***************************************************************************)
handlePreviouslyRescheduledPodsListIgnoresError(clusterInfo, pod) ==
    IF clusterInfo.err # NoError
    THEN Continue("ReschedulePod")
    ELSE IF Contains(clusterInfo.rescheduleHookPodsList, pod)
    THEN ContinuePatch(TRUE,
             DeleteFunc(clusterInfo.rescheduleHookPodsList, pod))
    ELSE ContinuePatch(FALSE, Append(clusterInfo.rescheduleHookPodsList, pod))

(***************************************************************************)
(* handleEviction passing shouldUpdateList = false.                        *)
(***************************************************************************)
shouldUpdateListFalse == FALSE

(***************************************************************************)
(* handlePreviouslyRescheduledPodsList from the result of                  *)
(* client.GetClusterInfo to the patch it issues.  handleEviction passes    *)
(* shouldUpdateList = true.                                                *)
(***************************************************************************)
shouldUpdateList == TRUE

handlePreviouslyRescheduledPodsList(clusterInfo, pod) ==
    IF clusterInfo.err # NoError
    THEN Return(denyEviction(StatusInternalServerError,
                    StatusReasonInternalError,
                    "Failed to get required cluster info"))
    ELSE IF Contains(clusterInfo.rescheduleHookPodsList, pod)
    THEN ContinuePatch(TRUE,
             DeleteFunc(clusterInfo.rescheduleHookPodsList, pod))
    ELSE IF shouldUpdateList
    THEN ContinuePatch(FALSE, Append(clusterInfo.rescheduleHookPodsList, pod))
    ELSE Continue("ReschedulePod")

(***************************************************************************)
(* handlePreviouslyRescheduledPodsListPatched going on to the marker patch *)
(* when the pod could not be added to the tracked-pods list.               *)
(***************************************************************************)
handlePreviouslyRescheduledPodsListPatchedIgnoresError(remove, err) ==
    IF remove
    THEN IF err # NoError
         THEN Return(denyEviction(StatusInternalServerError,
                         StatusReasonInternalError,
                         "Failed to remove pod from tracking list"))
         ELSE Return(allowEviction)
    ELSE Continue("ReschedulePod")

(***************************************************************************)
(* handlePreviouslyRescheduledPodsList from the result of                  *)
(* client.PatchRescheduleHookPodsList on: the removing branch allows the   *)
(* eviction, the adding branch returns nil and handleEviction goes on.     *)
(***************************************************************************)
handlePreviouslyRescheduledPodsListPatched(remove, err) ==
    IF remove
    THEN IF err # NoError
         THEN Return(denyEviction(StatusInternalServerError,
                         StatusReasonInternalError,
                         "Failed to remove pod from tracking list"))
         ELSE Return(allowEviction)
    ELSE IF err # NoError
         THEN Return(denyEviction(StatusInternalServerError,
                         StatusReasonInternalError,
                         "Failed to update rescheduled pods tracking list"))
         ELSE Continue("ReschedulePod")

(***************************************************************************)
(* handleEvictionReschedulePod letting the eviction through once the       *)
(* marker patch succeeded.                                                 *)
(***************************************************************************)
handleEvictionReschedulePodAllows(err) ==
    IF err # NoError
    THEN Return(denyEviction(StatusInternalServerError,
                    StatusReasonInternalError,
                    "Failed to add reschedule annotation to pod"))
    ELSE Return(allowEviction)

(***************************************************************************)
(* handleEvictionReschedulePod reporting the marker as added whatever the  *)
(* patch returned.                                                         *)
(***************************************************************************)
handleEvictionReschedulePodIgnoresError(err) ==
    Return(denyEviction(StatusTooManyRequests, StatusReasonTooManyRequests,
                        "Reschedule annotation added to pod"))

(***************************************************************************)
(* handleEvictionReschedulePod issuing the marker patch again when it      *)
(* failed.                                                                 *)
(***************************************************************************)
handleEvictionReschedulePodRetries(err) ==
    IF err # NoError
    THEN Continue("ReschedulePod")
    ELSE Return(denyEviction(StatusTooManyRequests,
                    StatusReasonTooManyRequests,
                    "Reschedule annotation added to pod"))

(***************************************************************************)
(* handleEviction from the result of client.ReschedulePod to its return.   *)
(***************************************************************************)
handleEvictionReschedulePod(err) ==
    IF err # NoError
    THEN Return(denyEviction(StatusInternalServerError,
                    StatusReasonInternalError,
                    "Failed to add reschedule annotation to pod"))
    ELSE Return(denyEviction(StatusTooManyRequests,
                    StatusReasonTooManyRequests,
                    "Reschedule annotation added to pod"))

(***************************************************************************)
(* serveEviction's reply: the admission review that carries the response   *)
(* of handleEviction with its UID set to the UID of the request.           *)
(***************************************************************************)
serveEvictionReviewNoUID(uid, response) ==
    [APIVersion |-> "admission.k8s.io/v1", Kind |-> "AdmissionReview",
     Response |-> [UID |-> "", Allowed |-> response.Allowed,
                   Result |-> response]]

serveEvictionReview(uid, response) ==
    [APIVersion |-> "admission.k8s.io/v1", Kind |-> "AdmissionReview",
     Response |-> [UID |-> uid, Allowed |-> response.Allowed,
                   Result |-> response]]

(***************************************************************************)
(* The invocation r after accessor `call` came back with `err` and the     *)
(* code decided `step`.  err records the accessor call that failed, other  *)
(* than the pod fetch reporting not-found, and cause the error it returned. *)
(***************************************************************************)
Advance(r, step, call, err) ==
    [req[r] EXCEPT !.pc = step.pc, !.response = step.response,
                   !.remove = step.remove, !.list = step.list,
                   !.calls = Append(req[r].calls, call),
                   !.err = IF err = NoError \/ (call = "GetPod" /\ err = NotFound)
                           THEN req[r].err
                           ELSE call,
                   !.cause = IF err = NoError THEN req[r].cause ELSE err,
                   !.review = IF step.pc = "done"
                              THEN serveEvictionReview(req[r].uid,
                                                       step.response)
                              ELSE NoReview]

InternalError == "InternalError"

(***************************************************************************)
(* serveEviction hands the eviction of pod `name` to handleEviction, which *)
(* fetches the pod.  Requests are numbered in the order in which they      *)
(* fetch; `after` records the requests that had returned by then.  The     *)
(* eviction's DeleteOptions.DryRun is decoded with the request and read    *)
(* nowhere.                                                                *)
(***************************************************************************)
HandleEvictionGetPod(r, name, dryRun) ==
    /\ req[r].pc = "idle"
    /\ \A q \in Reqs : q < r => req[q].pc # "idle"
    /\ LET got == GetPod(name)
       IN  req' = [req EXCEPT ![r] =
                     [Advance(r, handleEvictionGetPod(got), "GetPod", got.err)
                        EXCEPT !.name = name, !.pod = got.pod,
                               !.dryRun = dryRun,
                               !.after = {q \in Reqs : req[q].pc = "done"}]]
    /\ UNCHANGED <<config, TrackRescheduledPods, pods, incarnation, clusters>>

(***************************************************************************)
(* client.GetPod fails with an error other than not-found.                 *)
(***************************************************************************)
HandleEvictionGetPodFails(r, name, dryRun) ==
    /\ req[r].pc = "idle"
    /\ \A q \in Reqs : q < r => req[q].pc # "idle"
    /\ LET got == [pod |-> NoPod, err |-> InternalError]
       IN  req' = [req EXCEPT ![r] =
                     [Advance(r, handleEvictionGetPod(got), "GetPod", got.err)
                        EXCEPT !.name = name, !.dryRun = dryRun,
                               !.after = {q \in Reqs : req[q].pc = "done"}]]
    /\ UNCHANGED <<config, TrackRescheduledPods, pods, incarnation, clusters>>

(***************************************************************************)
(* handlePreviouslyRescheduledPodsList fetches the cluster info of the     *)
(* cluster named by the fetched pod's couchbase_cluster label.  sawTracked *)
(* records whether the resource held a tracking entry for the pod then.    *)
(***************************************************************************)
HandleEvictionGetClusterInfo(r) ==
    /\ req[r].pc = "GetClusterInfo"
    /\ LET clusterName == Lookup(req[r].pod.Labels, CouchbaseClusterLabelKey)
           clusterInfo == GetClusterInfo(clusterName)
           step == handlePreviouslyRescheduledPodsList(clusterInfo,
                                                       req[r].pod.name)
       IN  req' = [req EXCEPT ![r] =
                     [Advance(r, step, "GetClusterInfo", clusterInfo.err)
                        EXCEPT !.sawTracked =
                                   Tracked(clusterName, req[r].pod.name)]]
    /\ UNCHANGED <<config, TrackRescheduledPods, pods, incarnation, clusters>>

(***************************************************************************)
(* The fetch of the cluster resource fails at the API server.              *)
(***************************************************************************)
HandleEvictionGetClusterInfoFails(r) ==
    /\ req[r].pc = "GetClusterInfo"
    /\ LET clusterInfo == [err |-> InternalError]
           step == handlePreviouslyRescheduledPodsList(clusterInfo,
                                                       req[r].pod.name)
       IN  req' = [req EXCEPT ![r] =
                     Advance(r, step, "GetClusterInfo", clusterInfo.err)]
    /\ UNCHANGED <<config, TrackRescheduledPods, pods, incarnation, clusters>>

(***************************************************************************)
(* handlePreviouslyRescheduledPodsList patches the list it computed from   *)
(* the fetched cluster info onto the cluster resource.                     *)
(***************************************************************************)
HandleEvictionPatchList(r) ==
    /\ req[r].pc = "PatchList"
    /\ LET clusterName == Lookup(req[r].pod.Labels, CouchbaseClusterLabelKey)
           err == IF clusterName \in DOMAIN clusters THEN NoError
                  ELSE NotFound
           step == handlePreviouslyRescheduledPodsListPatched(req[r].remove,
                                                              err)
       IN  /\ clusters' =
                 IF err # NoError THEN clusters
                 ELSE [clusters EXCEPT ![clusterName].annotations =
                         PatchRescheduleHookPodsList(
                             clusters[clusterName].annotations, req[r].list)]
           /\ req' = [req EXCEPT ![r] =
                        Advance(r, step, "PatchRescheduleHookPodsList", err)]
    /\ UNCHANGED <<config, TrackRescheduledPods, pods, incarnation>>

HandleEvictionPatchListFails(r) ==
    /\ req[r].pc = "PatchList"
    /\ LET step == handlePreviouslyRescheduledPodsListPatched(req[r].remove,
                                                              InternalError)
       IN  req' = [req EXCEPT ![r] =
                     Advance(r, step, "PatchRescheduleHookPodsList",
                             InternalError)]
    /\ UNCHANGED <<config, TrackRescheduledPods, pods, incarnation, clusters>>

(***************************************************************************)
(* handleEviction patches the marker onto the pod and returns.  The patch  *)
(* addresses the pod by name and namespace, so it lands on whichever pod   *)
(* has that name now, and fails with not-found when there is none.         *)
(***************************************************************************)
HandleEvictionReschedulePod(r) ==
    /\ req[r].pc = "ReschedulePod"
    /\ LET name == req[r].pod.name
           err == IF pods[name] = NoPod THEN NotFound ELSE NoError
       IN  /\ pods' = IF err # NoError THEN pods
                      ELSE [pods EXCEPT ![name] = ReschedulePod(pods[name])]
           /\ req' = [req EXCEPT ![r] =
                        Advance(r, handleEvictionReschedulePod(err),
                                "ReschedulePod", err)]
    /\ UNCHANGED <<config, TrackRescheduledPods, incarnation, clusters>>

HandleEvictionReschedulePodFails(r) ==
    /\ req[r].pc = "ReschedulePod"
    /\ req' = [req EXCEPT ![r] =
                 Advance(r, handleEvictionReschedulePod(InternalError),
                         "ReschedulePod", InternalError)]
    /\ UNCHANGED <<config, TrackRescheduledPods, pods, incarnation, clusters>>

(***************************************************************************)
(* The environment: a pod is created under a free name (by the test        *)
(* harness, or by the operator recreating a pod it moved), and a pod is    *)
(* deleted (by the operator, or by the eviction the webhook allowed).      *)
(* Pod names are interchangeable, so names are first used in the order of  *)
(* PodUniverse; a pod without the couchbase label carries the marker key   *)
(* with the configured value or not at all.                                *)
(***************************************************************************)
RECURSIVE Sum(_, _)
Sum(f, S) ==
    IF S = {} THEN 0
    ELSE LET x == CHOOSE y \in S : TRUE IN f[x] + Sum(f, S \ {x})

Created == Sum(incarnation, PodNames)

CreatePod(name, app, marker) ==
    /\ pods[name] = NoPod
    /\ Created < MaxCreates
    /\ \A i \in 2..MaxPods :
         PodUniverse[i] = name => incarnation[PodUniverse[i - 1]] > 0
    /\ app # CouchbasePodLabelValue => marker # "false"
    /\ incarnation' = [incarnation EXCEPT ![name] = @ + 1]
    /\ pods' = [pods EXCEPT ![name] =
                  NewPod(name, incarnation[name] + 1, app, marker)]
    /\ UNCHANGED <<config, TrackRescheduledPods, clusters, req>>

DeletePod(name) ==
    /\ pods[name] # NoPod
    /\ pods' = [pods EXCEPT ![name] = NoPod]
    /\ UNCHANGED <<config, TrackRescheduledPods, incarnation, clusters, req>>

Next ==
    \/ \E r \in Reqs, name \in PodNames, dryRun \in BOOLEAN :
          HandleEvictionGetPod(r, name, dryRun)
    \/ \E r \in Reqs, name \in PodNames, dryRun \in BOOLEAN :
          HandleEvictionGetPodFails(r, name, dryRun)
    \/ \E r \in Reqs : HandleEvictionGetClusterInfo(r)
    \/ \E r \in Reqs : HandleEvictionGetClusterInfoFails(r)
    \/ \E r \in Reqs : HandleEvictionPatchList(r)
    \/ \E r \in Reqs : HandleEvictionPatchListFails(r)
    \/ \E r \in Reqs : HandleEvictionReschedulePod(r)
    \/ \E r \in Reqs : HandleEvictionReschedulePodFails(r)
    \/ \E name \in PodNames, app \in AppLabelValues,
          marker \in MarkerValues \cup {""} : CreatePod(name, app, marker)
    \/ \E name \in PodNames : DeletePod(name)

Spec == Init /\ [][Next]_vars

(***************************************************************************)
(* Vocabulary of the properties.                                           *)
(***************************************************************************)
Done(r) == req[r].pc = "done"

Fetched(r) == req[r].pod # NoPod

Managed(pod) ==
    Lookup(pod.Labels, CouchbasePodLabelKey) = CouchbasePodLabelValue

Marked(pod) ==
    /\ Exists(pod.Annotations, RescheduleAnnotation)
    /\ pod.Annotations[RescheduleAnnotation] = RescheduleTrue

ClusterOf(pod) == Lookup(pod.Labels, CouchbaseClusterLabelKey)

Eligible(cluster) ==
    /\ cluster \in DOMAIN clusters
    /\ Lookup(clusters[cluster].spec, InPlaceUpgradeStrategyKey)
           = InPlaceUpgradeStrategyValue

Called(r, call) == \E i \in 1..Len(req[r].calls) : req[r].calls[i] = call

PodNotFound(r) == Done(r) /\ ~Fetched(r) /\ req[r].err = NoError

AwaitingResponse ==
    denyEviction(StatusTooManyRequests, StatusReasonTooManyRequests,
                 "Couchbase pod awaiting reschedule")

AddedResponse ==
    denyEviction(StatusTooManyRequests, StatusReasonTooManyRequests,
                 "Reschedule annotation added to pod")

C2_UnmanagedAllowed ==
    \A r \in Reqs :
        (Done(r) /\ Fetched(r) /\ ~Managed(req[r].pod)) =>
            /\ req[r].response = allowEviction
            /\ req[r].calls = <<"GetPod">>

(* An unlabelled pod that carries the marker, under a name that has a      *)
(* tracking entry, was allowed.                                            *)
C2_Witness ==
    \E r \in Reqs :
        /\ Done(r) /\ Fetched(r) /\ ~Managed(req[r].pod)
        /\ Marked(req[r].pod)
        /\ Tracked(ClusterOf(req[r].pod), req[r].name)

(***************************************************************************)
(* C3: a couchbase pod that carries the marker with the configured value   *)
(* is denied with 429 and the awaiting-reschedule message, without any     *)
(* accessor call besides the pod fetch (so neither the pod nor the         *)
(* tracking resource changes), and every call that finds the marker in     *)
(* place gets that same response.                                          *)
(***************************************************************************)
C3_MarkedAwaiting ==
    /\ \A r \in Reqs :
          (Done(r) /\ Fetched(r) /\ Managed(req[r].pod) /\ Marked(req[r].pod)) =>
              /\ req[r].response = AwaitingResponse
              /\ req[r].calls = <<"GetPod">>
    /\ \A r, q \in Reqs :
          (/\ Done(r) /\ Fetched(r) /\ Managed(req[r].pod) /\ Marked(req[r].pod)
           /\ Done(q) /\ Fetched(q) /\ Managed(req[q].pod) /\ Marked(req[q].pod)
           /\ req[r].pod = req[q].pod) =>
              req[r].response = req[q].response

(* Two calls found the same marked couchbase pod.                          *)
C3_Witness ==
    \E r, q \in Reqs :
        /\ r # q
        /\ Done(r) /\ Fetched(r) /\ Managed(req[r].pod) /\ Marked(req[r].pod)
        /\ Done(q) /\ req[q].pod = req[r].pod
        /\ TrackRescheduledPods

(***************************************************************************)
(* C4: when GetPod reports that the pod does not exist, the response is    *)
(* the denial with code 404.                                               *)
(***************************************************************************)
C4_NotFoundDenied404 ==
    \A r \in Reqs :
        PodNotFound(r) =>
            /\ ~req[r].response.Allowed
            /\ req[r].response.Code = StatusNotFound

(***************************************************************************)
(* More vocabulary: a call that ran to its return with no accessor failure *)
(* on a couchbase pod it fetched without the marker.                       *)
(***************************************************************************)
CleanUnmarked(r) ==
    /\ Done(r) /\ Fetched(r) /\ req[r].err = NoError
    /\ Managed(req[r].pod) /\ ~Marked(req[r].pod)

SameIncarnation(p1, p2) == p1.name = p2.name /\ p1.uid = p2.uid

(***************************************************************************)
(* C5: same-name cycle with tracking enabled and an in-place cluster.  A   *)
(* call q marked and tracked pod P and returned; P was deleted and created *)
(* again under the same name without marker; the next call r, which finds  *)
(* P's tracking entry, is denied with 404, leaves no tracking entry for P  *)
(* behind and does not patch the marker onto the pod.                      *)
(***************************************************************************)
C5_SameNameCycleDenied404 ==
    \A q, r \in Reqs :
        (/\ TrackRescheduledPods
         /\ CleanUnmarked(q) /\ req[q].response = AddedResponse
         /\ Called(q, "PatchRescheduleHookPodsList")
         /\ CleanUnmarked(r) /\ q \in req[r].after
         /\ req[r].pod.name = req[q].pod.name
         /\ req[r].pod.uid > req[q].pod.uid
         /\ Eligible(ClusterOf(req[r].pod))
         /\ req[r].sawTracked) =>
            /\ ~req[r].response.Allowed
            /\ req[r].response.Code = StatusNotFound
            /\ ~Tracked(ClusterOf(req[r].pod), req[r].pod.name)
            /\ ~Called(r, "ReschedulePod")

(***************************************************************************)
(* C6: with tracking enabled and an in-place cluster, calls for distinct   *)
(* couchbase pods without marker that meet no accessor failure each get    *)
(* the 429 annotation-added response under every interleaving, and once    *)
(* all of them have returned every one of their pods has its tracking      *)
(* entry on the cluster resource.                                          *)
(***************************************************************************)
C6_DistinctPodsAllTracked ==
    (/\ TrackRescheduledPods
     /\ \A r \in Reqs : CleanUnmarked(r) /\ Eligible(ClusterOf(req[r].pod))
     /\ \A q, r \in Reqs : q # r => req[q].pod.name # req[r].pod.name) =>
        \A r \in Reqs :
            /\ req[r].response = AddedResponse
            /\ Tracked(ClusterOf(req[r].pod), req[r].pod.name)

(***************************************************************************)
(* C7: two calls that both fetched the same couchbase pod without marker   *)
(* (tracking enabled, in-place cluster, no accessor failure) end as some   *)
(* serial run of the two would: one gets the annotation-added response and *)
(* the other the awaiting-reschedule response, neither gets a 404, and the *)
(* pod carries the marker and has its tracking entry.                      *)
(***************************************************************************)
C7_SamePodSerialEquivalent ==
    \A q, r \in Reqs :
        (/\ q < r
         /\ TrackRescheduledPods
         /\ CleanUnmarked(q) /\ CleanUnmarked(r)
         /\ req[q].pod = req[r].pod
         /\ Eligible(ClusterOf(req[r].pod))) =>
            /\ {req[q].response, req[r].response}
                   = {AddedResponse, AwaitingResponse}
            /\ req[q].response.Code # StatusNotFound
            /\ req[r].response.Code # StatusNotFound
            /\ pods[req[r].pod.name] # NoPod
                   => Marked(pods[req[r].pod.name])
            /\ Tracked(ClusterOf(req[r].pod), req[r].pod.name)

(***************************************************************************)
(* C8: on a cluster whose upgradeProcess is not InPlaceUpgrade a call for  *)
(* a couchbase pod without marker and without tracking entry still patches *)
(* the marker and gets the 429 annotation-added response, and no pod ever  *)
(* has a tracking entry on such a cluster.                                 *)
(***************************************************************************)
C8_IneligibleNoTracking ==
    /\ \A r \in Reqs :
          (/\ CleanUnmarked(r) /\ ~req[r].sawTracked
           /\ ~Eligible(ClusterOf(req[r].pod))) =>
              /\ req[r].response = AddedResponse
              /\ Called(r, "ReschedulePod")
    /\ \A c \in ClusterNames :
          ~Eligible(c) => \A n \in PodNames : ~Tracked(c, n)

(***************************************************************************)
(* C9: with tracking enabled and an in-place cluster, a call for a         *)
(* couchbase pod that it found without marker and without tracking entry   *)
(* returns the 429 annotation-added response, and when it returns the pod  *)
(* carries the marker and the cluster resource holds the pod's tracking    *)
(* entry.                                                                  *)
(***************************************************************************)
C9_TrackedAndMarkedOnReturn ==
    [][\A r \in Reqs :
          (/\ ~Done(r) /\ Done(r)'
           /\ TrackRescheduledPods
           /\ CleanUnmarked(r)' /\ ~req[r].sawTracked
           /\ Eligible(ClusterOf(req[r].pod))) =>
              /\ req'[r].response = AddedResponse
              /\ pods'[req[r].pod.name] # NoPod
              /\ Marked(pods'[req[r].pod.name])
              /\ Tracked(ClusterOf(req[r].pod), req[r].pod.name)']_vars

(***************************************************************************)
(* C10: with tracking disabled, a call for a couchbase pod without marker  *)
(* gets the 429 annotation-added response after the pod fetch and the pod  *)
(* patch alone (no read and no write of the cluster resource), the pod     *)
(* carries the marker afterwards, a call made after that one returned gets *)
(* the awaiting-reschedule response, and no two calls get the              *)
(* annotation-added response for the same pod incarnation.                 *)
(***************************************************************************)
C10_AddedOncePerIncarnation ==
    ~TrackRescheduledPods =>
        /\ \A r \in Reqs :
              CleanUnmarked(r) =>
                  /\ req[r].response = AddedResponse
                  /\ req[r].calls = <<"GetPod", "ReschedulePod">>
                  /\ (/\ pods[req[r].pod.name] # NoPod
                      /\ SameIncarnation(pods[req[r].pod.name], req[r].pod))
                         => Marked(pods[req[r].pod.name])
        /\ \A q, r \in Reqs :
              (/\ q \in req[r].after /\ Done(r) /\ Fetched(r)
               /\ CleanUnmarked(q)
               /\ SameIncarnation(req[q].pod, req[r].pod)) =>
                  req[r].response = AwaitingResponse
        /\ \A q, r \in Reqs :
              (/\ q # r /\ Done(q) /\ Done(r) /\ Fetched(q) /\ Fetched(r)
               /\ SameIncarnation(req[q].pod, req[r].pod)) =>
                  ~(/\ req[q].response = AddedResponse
                    /\ req[r].response = AddedResponse)

(***************************************************************************)
(* The status code of a response as the caller sees it: 0 for an allowed   *)
(* eviction, the HTTP code of the denial otherwise.                        *)
(***************************************************************************)
StatusCode(response) == IF response.Allowed THEN 0 ELSE response.Code

SamePod(q, r) ==
    /\ req[q].name = req[r].name
    /\ Fetched(q) = Fetched(r)
    /\ Fetched(q) => SameIncarnation(req[q].pod, req[r].pod)

C12_DryRunMutatesNothing ==
    \A r \in Reqs :
        (Done(r) /\ req[r].dryRun /\ Fetched(r) /\ req[r].err = NoError) =>
            /\ Managed(req[r].pod) /\ ~Marked(req[r].pod)
                   => req[r].response = AddedResponse
            /\ ~Managed(req[r].pod) => req[r].response = allowEviction
            /\ ~Called(r, "ReschedulePod")
            /\ ~Called(r, "PatchRescheduleHookPodsList")

(***************************************************************************)
(* A node drain.  The pods are running couchbase pods of an in-place       *)
(* cluster and tracking is enabled.  The drain command evicts each pod by  *)
(* name and evicts again after every 429 or 500; the operator deletes a    *)
(* marked pod and creates it again under the same name without the marker. *)
(* Accessor calls meet no API failure.  Pod uids are not read by the code; *)
(* they wrap at MaxCreates to keep the drain finite-state.                 *)
(***************************************************************************)
DrainInit ==
    /\ TrackRescheduledPods = TRUE
    /\ pods = [n \in PodNames |-> NewPod(n, 1, CouchbasePodLabelValue, "")]
    /\ incarnation = [n \in PodNames |-> 1]
    /\ clusters = [c \in ClusterNames |->
          [spec |-> [x \in {InPlaceUpgradeStrategyKey} |->
                        InPlaceUpgradeStrategyValue],
           annotations |-> [x \in {SomeOtherAnnotation} |-> SomeValue]]]
    /\ req = [r \in Reqs |-> [IdleReq EXCEPT !.uid = RequestUIDs[r]]]
    /\ config = NoConfig

Retryable(r) ==
    /\ Done(r)
    /\ ~req[r].response.Allowed
    /\ req[r].response.Code \in {StatusTooManyRequests,
                                 StatusInternalServerError}

DrainRetry(r) ==
    /\ Retryable(r)
    /\ LET got == GetPod(req[r].name)
           step == handleEvictionGetPod(got)
       IN  req' = [req EXCEPT ![r] =
                     [IdleReq EXCEPT !.pc = step.pc,
                                     !.response = step.response,
                                     !.name = req[r].name,
                                     !.pod = got.pod,
                                     !.dryRun = req[r].dryRun,
                                     !.after = {q \in Reqs \ {r} : Done(q)},
                                     !.calls = <<"GetPod">>,
                                     !.uid = req[r].uid,
                                     !.review =
                                        IF step.pc = "done"
                                        THEN serveEvictionReview(req[r].uid,
                                                                 step.response)
                                        ELSE NoReview]]
    /\ UNCHANGED <<config, TrackRescheduledPods, pods, incarnation, clusters>>

OperatorDeletePod(name) ==
    /\ pods[name] # NoPod
    /\ Marked(pods[name])
    /\ pods' = [pods EXCEPT ![name] = NoPod]
    /\ UNCHANGED <<config, TrackRescheduledPods, incarnation, clusters, req>>

OperatorRecreatePod(name) ==
    /\ pods[name] = NoPod
    /\ incarnation' = [incarnation EXCEPT ![name] = (@ % MaxCreates) + 1]
    /\ pods' = [pods EXCEPT ![name] =
                  NewPod(name, (incarnation[name] % MaxCreates) + 1,
                         CouchbasePodLabelValue, "")]
    /\ UNCHANGED <<config, TrackRescheduledPods, clusters, req>>

DrainNext ==
    \/ \E r \in Reqs, name \in PodNames : HandleEvictionGetPod(r, name, FALSE)
    \/ \E r \in Reqs : HandleEvictionGetClusterInfo(r)
    \/ \E r \in Reqs : HandleEvictionPatchList(r)
    \/ \E r \in Reqs : HandleEvictionReschedulePod(r)
    \/ \E r \in Reqs : DrainRetry(r)
    \/ \E name \in PodNames : OperatorDeletePod(name)
    \/ \E name \in PodNames : OperatorRecreatePod(name)

DrainFairness ==
    /\ \A r \in Reqs :
          /\ WF_vars(\E name \in PodNames : HandleEvictionGetPod(r, name, FALSE))
          /\ WF_vars(HandleEvictionGetClusterInfo(r))
          /\ WF_vars(HandleEvictionPatchList(r))
          /\ WF_vars(HandleEvictionReschedulePod(r))
          /\ WF_vars(DrainRetry(r))
    /\ \A name \in PodNames :
          /\ WF_vars(OperatorDeletePod(name))
          /\ WF_vars(OperatorRecreatePod(name))

DrainSpec == DrainInit /\ [][DrainNext]_vars /\ DrainFairness

SuccessEquivalent(r) ==
    /\ Done(r)
    /\ \/ req[r].response.Allowed
       \/ req[r].response.Code = StatusNotFound

(***************************************************************************)
(* C13: drain completion.  With tracking enabled and an in-place cluster,  *)
(* accessor calls that succeed, a drain command that evicts again after    *)
(* every 429 or 500 and an operator that deletes each marked pod and       *)
(* creates it again, every eviction of a couchbase pod that was denied     *)
(* with 429 or 500 eventually gets a 404 or is allowed.                    *)
(***************************************************************************)
C13_DrainCompletes ==
    \A r \in Reqs :
        (Retryable(r) /\ Fetched(r) /\ Managed(req[r].pod))
            ~> SuccessEquivalent(r)

(***************************************************************************)
(* The reason handleEviction passes to denyEviction with each status code. *)
(***************************************************************************)
ReasonPassed(code) ==
    IF code = StatusTooManyRequests THEN StatusReasonTooManyRequests
    ELSE IF code = StatusNotFound THEN StatusReasonNotFound
    ELSE StatusReasonInternalError

(***************************************************************************)
(* C14: every denial carries, with its status code, the reason that was    *)
(* passed to denyEviction for it: NotFound with 404, TooManyRequests with  *)
(* 429, InternalError with 500.                                            *)
(***************************************************************************)
C14_DenyCarriesReason ==
    \A r \in Reqs :
        (Done(r) /\ ~req[r].response.Allowed) =>
            req[r].response.Reason = ReasonPassed(req[r].response.Code)

(***************************************************************************)
(* C15: the response for a pod that GetPod does not find is a denial with  *)
(* 404 whose reason is not the reason of the response for a pod found in   *)
(* the tracked-pods list, and both responses are success-equivalent: each  *)
(* is a 404 or allows the eviction.                                        *)
(***************************************************************************)
C15_NotFoundReasonDistinct ==
    LET sameName == handlePreviouslyRescheduledPodsListPatched(TRUE, NoError)
    IN  \A r \in Reqs :
            PodNotFound(r) =>
                /\ \/ req[r].response.Allowed
                   \/ req[r].response.Code = StatusNotFound
                /\ \/ sameName.response.Allowed
                   \/ sameName.response.Code = StatusNotFound
                /\ ~req[r].response.Allowed
                /\ req[r].response.Code = StatusNotFound
                /\ req[r].response.Reason # sameName.response.Reason

(***************************************************************************)
(* C16: the tracking write of a call for pod P changes the tracking state  *)
(* of P only: the step in which a call patches the cluster resource        *)
(* neither adds nor removes the tracking entry of any other pod.           *)
(***************************************************************************)
C16_PatchTouchesOwnEntryOnly ==
    [][\A r \in Reqs :
          (req[r].pc = "PatchList" /\ req'[r].pc # "PatchList") =>
              \A c \in ClusterNames :
                  \A n \in PodNames \ {req[r].pod.name} :
                      Tracked(c, n)' = Tracked(c, n)]_vars

(***************************************************************************)
(* C17: the marker check comes before the tracking step.  The call that    *)
(* fetches a couchbase pod carrying the marker returns in that very step   *)
(* with the 429 awaiting-reschedule response, whatever the tracking switch *)
(* and whether or not the cluster resource could be fetched: it never      *)
(* calls GetClusterInfo or PatchRescheduleHookPodsList, and the pods and   *)
(* the cluster resource are as before.                                     *)
(***************************************************************************)
C17_MarkerCheckBeforeTracking ==
    /\ [](\A r \in Reqs :
             (Done(r) /\ Fetched(r) /\ Managed(req[r].pod)
                 /\ Marked(req[r].pod)) =>
                    /\ ~Called(r, "GetClusterInfo")
                    /\ ~Called(r, "PatchRescheduleHookPodsList"))
    /\ [][\A r \in Reqs :
             (/\ req[r].pc = "idle" /\ req'[r].pc # "idle"
              /\ req'[r].pod # NoPod
              /\ Managed(req'[r].pod) /\ Marked(req'[r].pod)) =>
                 /\ req'[r].pc = "done"
                 /\ req'[r].response = AwaitingResponse
                 /\ clusters' = clusters
                 /\ pods' = pods]_vars

(* With tracking enabled, a marked couchbase pod of a cluster resource     *)
(* whose upgradeProcess cannot be read got the awaiting response.          *)
C17_Witness ==
    \E r \in Reqs :
        /\ TrackRescheduledPods
        /\ Done(r) /\ Fetched(r) /\ Managed(req[r].pod) /\ Marked(req[r].pod)
        /\ ~Exists(clusters[ClusterOf(req[r].pod)].spec,
                   InPlaceUpgradeStrategyKey)
        /\ req[r].response = AwaitingResponse

(***************************************************************************)
(* C18: the upgrade strategy gates the writing of tracking entries only.   *)
(* On a cluster whose upgradeProcess is set and is not InPlaceUpgrade, a   *)
(* call for a couchbase pod without marker whose tracking entry is present *)
(* (written by an earlier call that marked the pod of that name) clears    *)
(* the entry and returns the 404 response, without patching the marker.    *)
(***************************************************************************)
C18_IneligibleStillClears ==
    [][\A r \in Reqs :
          (/\ ~Done(r) /\ Done(r)'
           /\ TrackRescheduledPods
           /\ CleanUnmarked(r)' /\ req'[r].sawTracked
           /\ \E q \in req[r].after :
                 /\ req[q].name = req[r].name
                 /\ req[q].response = AddedResponse
           /\ Exists(clusters[ClusterOf(req[r].pod)].spec,
                     InPlaceUpgradeStrategyKey)
           /\ ~Eligible(ClusterOf(req[r].pod))) =>
              /\ ~req'[r].response.Allowed
              /\ req'[r].response.Code = StatusNotFound
              /\ ~Called(r, "ReschedulePod")'
              /\ ~Tracked(ClusterOf(req[r].pod), req[r].pod.name)']_vars

(***************************************************************************)
(* C19: when the fetch of the cluster resource fails, the call returns in  *)
(* that step with the 500 'Failed to get required cluster info' response:  *)
(* it has made no call besides the pod fetch and the failed fetch, and the *)
(* step changes neither a pod (no marker written) nor the cluster resource *)
(* (no tracking entry written or cleared).                                 *)
(***************************************************************************)
C19_ClusterInfoFailureStops ==
    /\ [](\A r \in Reqs :
             (Done(r) /\ req[r].err = "GetClusterInfo") =>
                 /\ req[r].response =
                        denyEviction(StatusInternalServerError,
                                     StatusReasonInternalError,
                                     "Failed to get required cluster info")
                 /\ req[r].calls = <<"GetPod", "GetClusterInfo">>)
    /\ [][\A r \in Reqs :
             (req[r].pc = "GetClusterInfo" /\ req'[r].err = "GetClusterInfo") =>
                 /\ Done(r)'
                 /\ pods' = pods
                 /\ clusters' = clusters]_vars

(* A call for an unmarked couchbase pod ended on the failed fetch of a     *)
(* cluster resource that has its upgradeProcess, and the pod is unmarked.  *)
C19_Witness ==
    \E r \in Reqs :
        /\ Done(r) /\ req[r].err = "GetClusterInfo"
        /\ Exists(clusters[ClusterOf(req[r].pod)].spec,
                  InPlaceUpgradeStrategyKey)
        /\ pods[req[r].name] = req[r].pod
        /\ ~Marked(pods[req[r].name])

(***************************************************************************)
(* C20: when the write of the tracking entry fails, the call returns in    *)
(* that step with the 500 'Failed to update rescheduled pods tracking      *)
(* list' response and never calls ReschedulePod; the step leaves the pods  *)
(* as they are, so the call does not mark the pod.                         *)
(***************************************************************************)
C20_TrackingWriteFailureStops ==
    /\ [](\A r \in Reqs :
             (Done(r) /\ req[r].err = "PatchRescheduleHookPodsList") =>
                 /\ req[r].response =
                        denyEviction(StatusInternalServerError,
                            StatusReasonInternalError,
                            "Failed to update rescheduled pods tracking list")
                 /\ ~Called(r, "ReschedulePod"))
    /\ [][\A r \in Reqs :
             (/\ req[r].pc = "PatchList"
              /\ req'[r].err = "PatchRescheduleHookPodsList") =>
                 /\ Done(r)'
                 /\ pods' = pods]_vars

(* A call ended on the failed tracking write and its pod is there,         *)
(* unmarked and untracked.                                                 *)
C20_Witness ==
    \E r \in Reqs :
        /\ Done(r) /\ req[r].err = "PatchRescheduleHookPodsList"
        /\ pods[req[r].name] = req[r].pod
        /\ ~Marked(pods[req[r].name])
        /\ ~Tracked(ClusterOf(req[r].pod), req[r].name)

(***************************************************************************)
(* C21: clearing a tracking entry.  With tracking enabled, a call r for a  *)
(* couchbase pod without marker finds the tracking entry that an earlier   *)
(* call wrote when it marked the pod of that name.  When r's tracking      *)
(* mutation fails, r returns the 500 response, the entry is still present  *)
(* and r has not patched the marker; when no accessor call of r fails, r   *)
(* returns the 404 response, the entry is gone and r has not patched the   *)
(* marker.                                                                 *)
(***************************************************************************)
C21_ClearFailureThenRetry ==
    [][\A r \in Reqs :
          (/\ ~Done(r) /\ Done(r)'
           /\ TrackRescheduledPods
           /\ Fetched(r) /\ Managed(req[r].pod) /\ ~Marked(req[r].pod)
           /\ req'[r].sawTracked
           /\ \E q \in req[r].after :
                 /\ req[q].name = req[r].name
                 /\ req[q].response = AddedResponse) =>
              /\ req'[r].err = "PatchRescheduleHookPodsList" =>
                    /\ ~req'[r].response.Allowed
                    /\ req'[r].response.Code = StatusInternalServerError
                    /\ Tracked(ClusterOf(req[r].pod), req[r].pod.name)'
                    /\ ~Called(r, "ReschedulePod")'
              /\ req'[r].err = NoError =>
                    /\ ~req'[r].response.Allowed
                    /\ req'[r].response.Code = StatusNotFound
                    /\ ~Tracked(ClusterOf(req[r].pod), req[r].pod.name)'
                    /\ ~Called(r, "ReschedulePod")']_vars

(***************************************************************************)
(* C22: when the marker patch fails, the call returns the 500 'Failed to   *)
(* add reschedule annotation to pod' response, not the 429 'Reschedule     *)
(* annotation added to pod' one; that 429 is returned only by a call whose *)
(* ReschedulePod succeeded, in the step that leaves the marker on the pod. *)
(***************************************************************************)
C22_MarkerPatchFailureIs500 ==
    /\ [](\A r \in Reqs :
             /\ (Done(r) /\ req[r].err = "ReschedulePod") =>
                    req[r].response =
                        denyEviction(StatusInternalServerError,
                                     StatusReasonInternalError,
                                     "Failed to add reschedule annotation to pod")
             /\ (Done(r) /\ req[r].response = AddedResponse) =>
                    /\ Called(r, "ReschedulePod")
                    /\ req[r].err = NoError)
    /\ [][\A r \in Reqs :
             (~Done(r) /\ Done(r)' /\ req'[r].response = AddedResponse) =>
                 /\ req[r].pc = "ReschedulePod"
                 /\ pods'[req[r].name] # NoPod
                 /\ Marked(pods'[req[r].name])]_vars

(* The marker patch of a call failed at the API server while the couchbase *)
(* pod it fetched is still there, unmarked.                                *)
C22_Witness ==
    \E r \in Reqs :
        /\ Done(r) /\ req[r].err = "ReschedulePod"
        /\ req[r].cause = InternalError
        /\ pods[req[r].name] = req[r].pod
        /\ ~Marked(req[r].pod)

(***************************************************************************)
(* C23: when GetPod fails with an error other than not-found, the call     *)
(* returns in that step with the 500 'Failed to get pod' response: GetPod  *)
(* is the only accessor call it has made, and the step changes neither a   *)
(* pod nor the cluster resource.                                           *)
(***************************************************************************)
C23_GetPodFailureStops ==
    /\ [](\A r \in Reqs :
             (Done(r) /\ req[r].err = "GetPod") =>
                 /\ req[r].response =
                        denyEviction(StatusInternalServerError,
                                     StatusReasonInternalError,
                                     "Failed to get pod")
                 /\ req[r].calls = <<"GetPod">>)
    /\ [][\A r \in Reqs :
             (req[r].pc = "idle" /\ req'[r].err = "GetPod") =>
                 /\ Done(r)'
                 /\ pods' = pods
                 /\ clusters' = clusters]_vars

(* The fetch of an unmarked couchbase pod failed with tracking enabled;    *)
(* the pod is still unmarked and has no tracking entry.                    *)
C23_Witness ==
    \E r \in Reqs :
        /\ Done(r) /\ req[r].err = "GetPod"
        /\ TrackRescheduledPods
        /\ pods[req[r].name] # NoPod
        /\ Managed(pods[req[r].name]) /\ ~Marked(pods[req[r].name])
        /\ ~Tracked(ClusterOf(pods[req[r].name]), req[r].name)

(***************************************************************************)
(* The handler under a scheduler that lets every started invocation run:   *)
(* handleEviction is straight-line code that takes no lock and waits for   *)
(* no other request, and each accessor call comes back with a result or an *)
(* error, so an invocation that has an accessor call to make makes it.     *)
(***************************************************************************)
HandleEvictionStep(r) ==
    \/ HandleEvictionGetClusterInfo(r)
    \/ HandleEvictionGetClusterInfoFails(r)
    \/ HandleEvictionPatchList(r)
    \/ HandleEvictionPatchListFails(r)
    \/ HandleEvictionReschedulePod(r)
    \/ HandleEvictionReschedulePodFails(r)

HandlerFairness == \A r \in Reqs : WF_vars(HandleEvictionStep(r))

FairSpec == Init /\ [][Next]_vars /\ HandlerFairness

InFlight(r) == req[r].pc \in {"GetClusterInfo", "PatchList", "ReschedulePod"}

Denied500(r) ==
    /\ ~req[r].response.Allowed
    /\ req[r].response.Code = StatusInternalServerError

(***************************************************************************)
(* C24 as stated: every invocation that has started returns, whatever the  *)
(* other requests do; it has a response exactly when it has returned and   *)
(* the response never changes afterwards; and the response is the 500      *)
(* denial if and only if an accessor call of the invocation failed with a  *)
(* cause other than not-found.                                             *)
(***************************************************************************)
C24_Deny500IffOtherThanNotFound ==
    /\ [](\A r \in Reqs :
             /\ Done(r) <=> req[r].response # NoResponse
             /\ InFlight(r) => ENABLED HandleEvictionStep(r)
             /\ Done(r) =>
                    (Denied500(r) <=> req[r].cause \notin {NoError, NotFound}))
    /\ [][\A r \in Reqs : Done(r) => req'[r] = req[r]]_vars
    /\ \A r \in Reqs : InFlight(r) ~> Done(r)

(***************************************************************************)
(* C24, amended: every invocation that has started returns, whatever the   *)
(* other requests do; it has a response exactly when it has returned and   *)
(* the response never changes afterwards; and the response is the 500      *)
(* denial if and only if an accessor call of the invocation failed, the    *)
(* pod fetch reporting not-found excepted.                                 *)
(***************************************************************************)
C24_TerminatesDeny500IffFailure ==
    /\ [](\A r \in Reqs :
             /\ Done(r) <=> req[r].response # NoResponse
             /\ InFlight(r) => ENABLED HandleEvictionStep(r)
             /\ Done(r) => (Denied500(r) <=> req[r].err # NoError))
    /\ [][\A r \in Reqs : Done(r) => req'[r] = req[r]]_vars
    /\ \A r \in Reqs : InFlight(r) ~> Done(r)

(* The pod was deleted between the fetch and the marker patch of a call:   *)
(* the patch failed with not-found and the call returned the 500 denial,   *)
(* while another request was in flight.                                    *)
C24_Witness ==
    \E r, q \in Reqs :
        /\ Done(r) /\ req[r].err = "ReschedulePod"
        /\ req[r].cause = NotFound
        /\ Denied500(r)
        /\ InFlight(q)

(***************************************************************************)
(* C25: with tracking enabled, a call issues the marker patch only after   *)
(* its own tracking write has succeeded: a call that has called            *)
(* ReschedulePod has called GetPod, GetClusterInfo and                     *)
(* PatchRescheduleHookPodsList before it, in that order and without        *)
(* failure, and the step in which its tracking patch succeeds leaves the   *)
(* pod's tracking entry on the cluster resource.                           *)
(***************************************************************************)
C25_TrackingWriteBeforeMarker ==
    /\ [](\A r \in Reqs :
             (TrackRescheduledPods /\ Called(r, "ReschedulePod")) =>
                 /\ Len(req[r].calls) = 4
                 /\ SubSeq(req[r].calls, 1, 3) =
                        <<"GetPod", "GetClusterInfo",
                          "PatchRescheduleHookPodsList">>
                 /\ req[r].err \in {NoError, "ReschedulePod"})
    /\ [][\A r \in Reqs :
             (/\ TrackRescheduledPods
              /\ req[r].pc # "ReschedulePod"
              /\ req'[r].pc = "ReschedulePod") =>
                 /\ req[r].pc = "PatchList"
                 /\ Tracked(ClusterOf(req[r].pod), req[r].pod.name)']_vars

(* A call on an in-place cluster with tracking enabled has marked the pod  *)
(* it fetched without marker, and the pod's tracking entry is stored.      *)
C25_Witness ==
    \E r \in Reqs :
        /\ Done(r) /\ TrackRescheduledPods
        /\ req[r].response = AddedResponse
        /\ Eligible(ClusterOf(req[r].pod))
        /\ ~req[r].sawTracked
        /\ pods[req[r].name] # NoPod /\ Marked(pods[req[r].name])
        /\ Tracked(ClusterOf(req[r].pod), req[r].name)

(***************************************************************************)
(* C26: the handler never takes the marker off a pod.  Across every step,  *)
(* a pod that is still the same incarnation keeps its marker key, and      *)
(* keeps the marker (the key with the configured value) when it carried    *)
(* it; only the deletion of the pod ends that.  (A key holding another     *)
(* value is not the marker; the marking step sets it to the configured     *)
(* value.)                                                                 *)
(***************************************************************************)
C26_MarkerNeverRemoved ==
    [][\A name \in PodNames :
          (/\ pods[name] # NoPod /\ pods'[name] # NoPod
           /\ SameIncarnation(pods[name], pods'[name])) =>
              /\ Exists(pods[name].Annotations, RescheduleAnnotation) =>
                    Exists(pods'[name].Annotations, RescheduleAnnotation)
              /\ Marked(pods[name]) => Marked(pods'[name])
              /\ pods'[name].Annotations # pods[name].Annotations =>
                    Marked(pods'[name])]_vars

(* Two calls fetched the same unmarked incarnation and both patched it:    *)
(* the second patch landed on the pod that already carried the marker.     *)
C26_Witness ==
    \E q, r \in Reqs :
        /\ q # r
        /\ Done(q) /\ Done(r)
        /\ req[q].response = AddedResponse /\ req[r].response = AddedResponse
        /\ Fetched(q) /\ Fetched(r)
        /\ SameIncarnation(req[q].pod, req[r].pod)
        /\ pods[req[r].name] # NoPod
        /\ SameIncarnation(pods[req[r].name], req[r].pod)
        /\ Marked(pods[req[r].name])

(***************************************************************************)
(* C27: one call makes each accessor call at most once (one GetPod, one    *)
(* GetClusterInfo, one PatchRescheduleHookPodsList, one ReschedulePod, in  *)
(* that order), whatever fails; and the removing branch of the tracking    *)
(* step returns whatever its patch returned, so a call that clears an      *)
(* entry does not go on to the marker patch.                               *)
(***************************************************************************)
AccessorCalls ==
    <<"GetPod", "GetClusterInfo", "PatchRescheduleHookPodsList",
      "ReschedulePod">>

C27_NoRetry ==
    /\ \A r \in Reqs :
          /\ \A i, j \in 1..Len(req[r].calls) :
                req[r].calls[i] = req[r].calls[j] => i = j
          /\ \A i, j \in 1..Len(req[r].calls) :
                i < j =>
                   \E a, b \in 1..Len(AccessorCalls) :
                      /\ a < b
                      /\ AccessorCalls[a] = req[r].calls[i]
                      /\ AccessorCalls[b] = req[r].calls[j]
          /\ (req[r].pc = "ReschedulePod" \/ Called(r, "ReschedulePod")) =>
                ~req[r].remove
    /\ \A err \in {NoError, NotFound, InternalError} :
          handlePreviouslyRescheduledPodsListPatched(TRUE, err).pc = "done"

(* A call made all four accessor calls and its marker patch failed, with   *)
(* the pod still there: it returned instead of patching again.             *)
C27_Witness ==
    \E r \in Reqs :
        /\ Done(r) /\ Len(req[r].calls) = 4
        /\ req[r].err = "ReschedulePod"
        /\ pods[req[r].name] # NoPod
        /\ ~Marked(pods[req[r].name])

(***************************************************************************)
(* C28: a couchbase pod whose marker key holds a value other than the      *)
(* configured one is handled as a pod without marker: the call does not    *)
(* return the awaiting-reschedule response; when none of its accessor      *)
(* calls fails it goes through the tracking step (with tracking enabled)   *)
(* and the marker patch and returns the 'added' response; and the step of  *)
(* the marker patch leaves the key with the configured value.              *)
(***************************************************************************)
OtherMarkerValue(pod) ==
    /\ Exists(pod.Annotations, RescheduleAnnotation)
    /\ pod.Annotations[RescheduleAnnotation] # RescheduleTrue

C28_OtherValueIsUnmarked ==
    /\ [](\A r \in Reqs :
             (/\ Done(r) /\ Fetched(r) /\ Managed(req[r].pod)
              /\ OtherMarkerValue(req[r].pod)) =>
                 /\ req[r].response # AwaitingResponse
                 /\ req[r].err = NoError =>
                       /\ req[r].response = AddedResponse
                       /\ Called(r, "ReschedulePod")
                       /\ TrackRescheduledPods =>
                             /\ Called(r, "GetClusterInfo")
                             /\ Called(r, "PatchRescheduleHookPodsList"))
    /\ [][\A r \in Reqs :
             (/\ ~Done(r) /\ Done(r)'
              /\ req'[r].response = AddedResponse) =>
                 /\ pods'[req[r].name] # NoPod
                 /\ Exists(pods'[req[r].name].Annotations, RescheduleAnnotation)
                 /\ pods'[req[r].name].Annotations[RescheduleAnnotation]
                        = RescheduleTrue]_vars

(* With tracking enabled a call fetched a couchbase pod whose marker key   *)
(* held "false" and returned 'added'; that pod now carries the marker.     *)
C28_Witness ==
    \E r \in Reqs :
        /\ Done(r) /\ Fetched(r) /\ Managed(req[r].pod)
        /\ OtherMarkerValue(req[r].pod)
        /\ TrackRescheduledPods
        /\ req[r].response = AddedResponse
        /\ pods[req[r].name] # NoPod
        /\ SameIncarnation(pods[req[r].name], req[r].pod)
        /\ Marked(pods[req[r].name])

(***************************************************************************)
(* C29: the 429 that the pending check returns for a pod found marked and  *)
(* the 429 that a call returns after its marker patch succeeded have the   *)
(* same Allowed flag, status, status code and reason, and differ in the    *)
(* message.                                                                *)
(***************************************************************************)
PendingCheckReturned(r) ==
    /\ Done(r) /\ Fetched(r) /\ Managed(req[r].pod) /\ Marked(req[r].pod)

MarkerPatchReturned(r) ==
    /\ Done(r) /\ Called(r, "ReschedulePod") /\ req[r].err = NoError

C29_Same429OnTheWire ==
    \A q, r \in Reqs :
        (PendingCheckReturned(q) /\ MarkerPatchReturned(r)) =>
            /\ req[q].response.Allowed = req[r].response.Allowed
            /\ ~req[r].response.Allowed
            /\ req[q].response.Status = req[r].response.Status
            /\ req[q].response.Code = req[r].response.Code
            /\ req[r].response.Code = StatusTooManyRequests
            /\ req[q].response.Reason = req[r].response.Reason
            /\ req[q].response.Message # req[r].response.Message

(* One call marked a pod and returned; a later call found that pod marked  *)
(* and returned from the pending check.                                    *)
C29_Witness ==
    \E q, r \in Reqs :
        /\ MarkerPatchReturned(r) /\ PendingCheckReturned(q)
        /\ r \in req[q].after
        /\ SameIncarnation(req[q].pod, req[r].pod)
        /\ ~Marked(req[r].pod)

(***************************************************************************)
(* The tracking-flag accessors on their own, as client_test.go drives      *)
(* them: the cluster resource is missing or carries any annotation map     *)
(* (none at all, other annotations, a tracked-pods list, flags of some     *)
(* pods), and a sequence of Add and Remove calls is applied to it, call r  *)
(* after call r - 1.  The dynamic client's Patch fails with not-found on a *)
(* resource that does not exist.                                           *)
(***************************************************************************)
AccessorKeys ==
    {SomeOtherAnnotation, RescheduleHookPodsListAnnotation}
        \cup {RescheduleHookTrackingAnnotationPrefix \o p : p \in PodNames}

AccessorValues(k) ==
    IF k = SomeOtherAnnotation THEN {SomeValue}
    ELSE IF k = RescheduleHookPodsListAnnotation
    THEN {JsonMarshal(<<p>>) : p \in PodNames}
            \cup {JsonMarshal(<<p, q>>) : p, q \in PodNames}
    ELSE {<<RescheduleTrue>>, SomeValue}

AccessorAnnotations ==
    UNION {{f \in [K -> UNION {AccessorValues(k) : k \in K}] :
               \A k \in K : f[k] \in AccessorValues(k)} :
           K \in SUBSET AccessorKeys}

AccessorInit ==
    /\ TrackRescheduledPods = TRUE
    /\ pods = [n \in PodNames |-> NoPod]
    /\ incarnation = [n \in PodNames |-> 0]
    /\ \E D \in {{}, ClusterNames}, a \in AccessorAnnotations,
          up \in UpgradeProcessValues \cup {""} :
          /\ D = {} => (a = <<>> /\ up = "")
          /\ clusters = [c \in D |->
                [spec |-> IF up = "" THEN <<>>
                          ELSE [x \in {InPlaceUpgradeStrategyKey} |-> up],
                 annotations |-> a]]
    /\ req = [r \in Reqs |-> IdleReq]
    /\ config = NoConfig

AccessorCall(r, call, podName, err) ==
    [IdleReq EXCEPT !.pc = "done", !.name = podName, !.calls = <<call>>,
                    !.err = IF err = NoError THEN NoError ELSE call,
                    !.cause = err]

AccessorAdd(r, clusterName, podName) ==
    /\ req[r].pc = "idle"
    /\ \A q \in Reqs : q < r => req[q].pc # "idle"
    /\ LET err == IF clusterName \in DOMAIN clusters THEN NoError
                  ELSE NotFound
       IN  /\ clusters' =
                 IF err # NoError THEN clusters
                 ELSE [clusters EXCEPT ![clusterName].annotations =
                         AddRescheduleHookTrackingAnnotation(
                             clusters[clusterName].annotations, podName)]
           /\ req' = [req EXCEPT ![r] =
                        AccessorCall(r, "AddRescheduleHookTrackingAnnotation",
                                     podName, err)]
    /\ UNCHANGED <<config, TrackRescheduledPods, pods, incarnation>>

AccessorRemove(r, clusterName, podName) ==
    /\ req[r].pc = "idle"
    /\ \A q \in Reqs : q < r => req[q].pc # "idle"
    /\ LET err == IF clusterName \in DOMAIN clusters THEN NoError
                  ELSE NotFound
       IN  /\ clusters' =
                 IF err # NoError THEN clusters
                 ELSE [clusters EXCEPT ![clusterName].annotations =
                         RemoveRescheduleHookTrackingAnnotation(
                             clusters[clusterName].annotations, podName)]
           /\ req' = [req EXCEPT ![r] =
                        AccessorCall(r,
                                     "RemoveRescheduleHookTrackingAnnotation",
                                     podName, err)]
    /\ UNCHANGED <<config, TrackRescheduledPods, pods, incarnation>>

AccessorLists ==
    {<<>>} \cup {<<p>> : p \in PodNames}
           \cup {<<p, q>> : p, q \in PodNames}

AccessorPatch(r, clusterName, list) ==
    /\ req[r].pc = "idle"
    /\ \A q \in Reqs : q < r => req[q].pc # "idle"
    /\ LET err == IF clusterName \in DOMAIN clusters THEN NoError
                  ELSE NotFound
       IN  /\ clusters' =
                 IF err # NoError THEN clusters
                 ELSE [clusters EXCEPT ![clusterName].annotations =
                         PatchRescheduleHookPodsList(
                             clusters[clusterName].annotations, list)]
           /\ req' = [req EXCEPT ![r] =
                        [AccessorCall(r, "PatchRescheduleHookPodsList", "",
                                      err)
                           EXCEPT !.list = list]]
    /\ UNCHANGED <<config, TrackRescheduledPods, pods, incarnation>>

AccessorNext ==
    \/ \E r \in Reqs, c \in ClusterNames, p \in PodNames : AccessorAdd(r, c, p)
    \/ \E r \in Reqs, c \in ClusterNames, p \in PodNames :
          AccessorRemove(r, c, p)
    \/ \E r \in Reqs, c \in ClusterNames, list \in AccessorLists :
          AccessorPatch(r, c, list)

AccessorSpec == AccessorInit /\ [][AccessorNext]_vars

Added(r, podName) ==
    /\ Done(r) /\ req[r].name = podName
    /\ req[r].calls = <<"AddRescheduleHookTrackingAnnotation">>

Removed(r, podName) ==
    /\ Done(r) /\ req[r].name = podName
    /\ req[r].calls = <<"RemoveRescheduleHookTrackingAnnotation">>

TrackingFlag(podName) == RescheduleHookTrackingAnnotationPrefix \o podName

(***************************************************************************)
(* C30: the tracking-flag accessors are idempotent.  An                    *)
(* AddRescheduleHookTrackingAnnotation on an existing cluster resource     *)
(* succeeds and leaves the pod's flag set to "true"; the same call made    *)
(* right after it succeeds and leaves the annotation map as the first call *)
(* left it.  A RemoveRescheduleHookTrackingAnnotation on a resource whose  *)
(* annotations do not hold the pod's flag (or that has no annotations at   *)
(* all) succeeds and leaves the annotation map as it was; after any        *)
(* successful Remove the flag is absent.                                   *)
(***************************************************************************)
C30_FlagAccessorsIdempotent ==
    [][\A r \in Reqs, c \in ClusterNames, p \in PodNames :
          /\ (~Done(r) /\ Added(r, p)' /\ c \in DOMAIN clusters) =>
                /\ req'[r].err = NoError
                /\ Exists(clusters'[c].annotations, TrackingFlag(p))
                /\ clusters'[c].annotations[TrackingFlag(p)] = <<RescheduleTrue>>
                /\ \A k \in DOMAIN clusters[c].annotations \ {TrackingFlag(p)} :
                      /\ Exists(clusters'[c].annotations, k)
                      /\ clusters'[c].annotations[k] = clusters[c].annotations[k]
                /\ (r > 1 /\ Added(r - 1, p) /\ req[r - 1].err = NoError) =>
                      clusters' = clusters
          /\ (~Done(r) /\ Removed(r, p)' /\ c \in DOMAIN clusters) =>
                /\ req'[r].err = NoError
                /\ ~Exists(clusters'[c].annotations, TrackingFlag(p))
                /\ ~Exists(clusters[c].annotations, TrackingFlag(p)) =>
                      clusters' = clusters]_vars

(* The flag of one pod was added twice in a row to a cluster resource that *)
(* carries another annotation, a tracked-pods list and another pod's flag. *)
C30_Witness ==
    \E r \in Reqs, c \in ClusterNames, p, other \in PodNames :
        /\ r > 1 /\ p # other
        /\ Added(r, p) /\ Added(r - 1, p)
        /\ req[r].err = NoError /\ req[r - 1].err = NoError
        /\ c \in DOMAIN clusters
        /\ DOMAIN clusters[c].annotations = AccessorKeys
        /\ clusters[c].annotations[TrackingFlag(p)] = <<RescheduleTrue>>

(***************************************************************************)
(* tracking.CouchbaseClusterTrackingResource.ShouldTrack and               *)
(* tracking.NamespaceTrackingResource.ShouldTrack on a resource instance.  *)
(***************************************************************************)
CouchbaseClusterShouldTrack(resourceInstance) ==
    LET found == Exists(resourceInstance.spec, "upgradeProcess")
    IN  IF ~found THEN FALSE
        ELSE resourceInstance.spec["upgradeProcess"] = "InPlaceUpgrade"

NamespaceShouldTrack(resourceInstance) == TRUE

(***************************************************************************)
(* C31: backend eligibility.  A cluster resource is eligible exactly when  *)
(* its spec.upgradeProcess is present and is "InPlaceUpgrade", a namespace *)
(* always; and a missing upgradeProcess is ineligibility, not an error:    *)
(* with tracking enabled, a call for a couchbase pod without marker on a   *)
(* cluster without upgradeProcess, no call to the API server failing,      *)
(* returns the 429 'added' response.                                       *)
(***************************************************************************)
C31_AbsentStrategyIsIneligibleNotError ==
    /\ \A c \in DOMAIN clusters :
          /\ CouchbaseClusterShouldTrack(clusters[c]) <=> Eligible(c)
          /\ NamespaceShouldTrack(clusters[c])
    /\ \A r \in Reqs :
          (/\ Done(r) /\ Fetched(r) /\ TrackRescheduledPods
           /\ Managed(req[r].pod) /\ ~Marked(req[r].pod)
           /\ ClusterOf(req[r].pod) \in DOMAIN clusters
           /\ ~Exists(clusters[ClusterOf(req[r].pod)].spec,
                      InPlaceUpgradeStrategyKey)
           /\ req[r].cause \notin {InternalError, NotFound}) =>
              req[r].response = AddedResponse

(***************************************************************************)
(* The tracking-resource registry and GetTrackingResource.  A variant is   *)
(* the registered implementation; NoTrackingResource is the nil interface. *)
(***************************************************************************)
ResourceTypeNamespace == "namespace"
ResourceTypeCouchbaseCluster == "couchbasecluster"
DefaultTrackingResourceType == ResourceTypeCouchbaseCluster

NamespaceTrackingResource ==
    [impl |-> "NamespaceTrackingResource",
     GetResourceType |-> ResourceTypeNamespace]

CouchbaseClusterTrackingResource ==
    [impl |-> "CouchbaseClusterTrackingResource",
     GetResourceType |-> ResourceTypeCouchbaseCluster]

NoTrackingResource == [impl |-> "nil", GetResourceType |-> ""]

trackingResourceRegistry ==
    [k \in {ResourceTypeNamespace, ResourceTypeCouchbaseCluster} |->
        IF k = ResourceTypeNamespace THEN NamespaceTrackingResource
        ELSE CouchbaseClusterTrackingResource]

(***************************************************************************)
(* GetTrackingResource returning the registry's zero value for a type that *)
(* is not registered.                                                      *)
(***************************************************************************)
GetTrackingResourceNoDefault(resourceType) ==
    IF resourceType \in DOMAIN trackingResourceRegistry
    THEN trackingResourceRegistry[resourceType]
    ELSE NoTrackingResource

GetTrackingResource(resourceType) ==
    IF resourceType \in DOMAIN trackingResourceRegistry
    THEN trackingResourceRegistry[resourceType]
    ELSE trackingResourceRegistry[ResourceTypeCouchbaseCluster]

(***************************************************************************)
(* strconv.ParseBool with its error dropped: false for a string that is    *)
(* not a boolean.                                                          *)
(***************************************************************************)
ParseBool(val) == val \in {"1", "t", "T", "TRUE", "true", "True"}

(***************************************************************************)
(* Building the Config: NewConfigBuilder, then FromEnvironment and the     *)
(* With... setters in any order, then Build.  The environment holds        *)
(* TRACKING_RESOURCE_TYPE and TRACK_RESCHEULED_PODS ("" is unset); the     *)
(* other variables are unset and leave their defaults.  last is the        *)
(* builder call made last and its argument.                                *)
(***************************************************************************)
ResourceTypeNames ==
    {"", ResourceTypeNamespace, ResourceTypeCouchbaseCluster, "Namespace",
     "configmap"}

TrackValues == {"", "true", "false", "yes"}

ConfigInit ==
    /\ TrackRescheduledPods = TRUE
    /\ pods = [n \in PodNames |-> NoPod]
    /\ incarnation = [n \in PodNames |-> 0]
    /\ clusters = <<>>
    /\ req = [r \in Reqs |-> IdleReq]
    /\ \E type \in ResourceTypeNames, track \in TrackValues :
          config = [stage |-> "env",
                    env |-> [TRACKING_RESOURCE_TYPE |-> type,
                             TRACK_RESCHEULED_PODS |-> track],
                    last |-> <<"", "">>,
                    trackRescheduledPods |-> FALSE,
                    trackingResource |-> NoTrackingResource]

NewConfigBuilder ==
    /\ config.stage = "env"
    /\ config' = [config EXCEPT
                    !.stage = "builder",
                    !.last = <<"NewConfigBuilder", "">>,
                    !.trackRescheduledPods = TRUE,
                    !.trackingResource =
                        GetTrackingResource(DefaultTrackingResourceType)]
    /\ UNCHANGED <<TrackRescheduledPods, pods, incarnation, clusters, req>>

FromEnvironment ==
    /\ config.stage = "builder"
    /\ LET track == config.env.TRACK_RESCHEULED_PODS
           type == config.env.TRACKING_RESOURCE_TYPE
       IN  config' = [config EXCEPT
                        !.last = <<"FromEnvironment", type>>,
                        !.trackRescheduledPods =
                            IF track # "" THEN ParseBool(track) ELSE @,
                        !.trackingResource =
                            IF type # "" THEN GetTrackingResource(type)
                            ELSE @]
    /\ UNCHANGED <<TrackRescheduledPods, pods, incarnation, clusters, req>>

WithTrackRescheduledPods(track) ==
    /\ config.stage = "builder"
    /\ config' = [config EXCEPT
                    !.last = <<"WithTrackRescheduledPods", "">>,
                    !.trackRescheduledPods = track]
    /\ UNCHANGED <<TrackRescheduledPods, pods, incarnation, clusters, req>>

WithTrackingResource(resourceType) ==
    /\ config.stage = "builder"
    /\ config' = [config EXCEPT
                    !.last = <<"WithTrackingResource", resourceType>>,
                    !.trackingResource = GetTrackingResource(resourceType)]
    /\ UNCHANGED <<TrackRescheduledPods, pods, incarnation, clusters, req>>

Build ==
    /\ config.stage = "builder"
    /\ config' = [config EXCEPT !.stage = "built"]
    /\ UNCHANGED <<TrackRescheduledPods, pods, incarnation, clusters, req>>

ConfigNext ==
    \/ NewConfigBuilder
    \/ FromEnvironment
    \/ \E track \in BOOLEAN : WithTrackRescheduledPods(track)
    \/ \E resourceType \in ResourceTypeNames :
          WithTrackingResource(resourceType)
    \/ Build

ConfigSpec == ConfigInit /\ [][ConfigNext]_vars

SelectedFor(resourceType) ==
    IF resourceType = "namespace" THEN NamespaceTrackingResource
    ELSE CouchbaseClusterTrackingResource

(***************************************************************************)
(* C32: backend selection is total and falls back to the cluster backend.  *)
(* A configuration under construction or built always has a backend, never *)
(* nil, and it is the one registered under its own GetResourceType.  The   *)
(* backend that WithTrackingResource selects for an identifier, and        *)
(* FromEnvironment for a TRACKING_RESOURCE_TYPE that is set, is the        *)
(* namespace backend for "namespace" and the cluster backend for           *)
(* "couchbasecluster" and for every other identifier, the empty string     *)
(* included.                                                               *)
(***************************************************************************)
C32_SelectionTotalFailOpen ==
    /\ [](config.stage \in {"builder", "built"} =>
             /\ config.trackingResource # NoTrackingResource
             /\ config.trackingResource \in
                   {NamespaceTrackingResource, CouchbaseClusterTrackingResource}
             /\ config.trackingResource.GetResourceType
                   \in DOMAIN trackingResourceRegistry
             /\ trackingResourceRegistry[
                    config.trackingResource.GetResourceType]
                   = config.trackingResource)
    /\ [][/\ (config'.last[1] = "WithTrackingResource"
                /\ config.stage = "builder") =>
                 config'.trackingResource = SelectedFor(config'.last[2])
          /\ (/\ config'.last[1] = "FromEnvironment"
              /\ config.stage = "builder"
              /\ config.env.TRACKING_RESOURCE_TYPE # "") =>
                 config'.trackingResource =
                     SelectedFor(config.env.TRACKING_RESOURCE_TYPE)]_vars

(* A configuration was built right after FromEnvironment read a           *)
(* TRACKING_RESOURCE_TYPE that names no registered backend.                *)
C32_Witness ==
    /\ config.stage = "built"
    /\ config.env.TRACKING_RESOURCE_TYPE = "configmap"
    /\ config.last = <<"FromEnvironment", "configmap">>
    /\ config.trackingResource = CouchbaseClusterTrackingResource

(***************************************************************************)
(* C33: the admission review written for a request carries that request's  *)
(* UID together with the response handleEviction returned for it, whether  *)
(* an allow or a denial, and whatever other requests are in flight: no     *)
(* review is written before the call returns, and the reviews of two       *)
(* requests carry different UIDs.                                          *)
(***************************************************************************)
C33_ReviewCarriesRequestUID ==
    /\ \A r \in Reqs :
          /\ ~Done(r) => req[r].review = NoReview
          /\ Done(r) =>
                /\ req[r].review # NoReview
                /\ req[r].review.Response.UID = RequestUIDs[r]
                /\ req[r].review.Response.UID = req[r].uid
                /\ req[r].review.Response.Result = req[r].response
                /\ req[r].review.Response.Allowed = req[r].response.Allowed
    /\ \A q, r \in Reqs :
          (q # r /\ Done(q) /\ Done(r)) =>
              req[q].review.Response.UID # req[r].review.Response.UID

(* Two requests were handled at the same time, neither having returned     *)
(* when the other fetched its pod; one was allowed and one was denied.     *)
C33_Witness ==
    \E q, r \in Reqs :
        /\ q # r /\ Done(q) /\ Done(r)
        /\ q \notin req[r].after /\ r \notin req[q].after
        /\ req[q].response.Allowed /\ ~req[r].response.Allowed
        /\ req[r].review.Response.UID = RequestUIDs[r]

(***************************************************************************)
(* C34: a call for a couchbase pod named P that went through the tracking  *)
(* step gets a success-equivalent response (allowed, or the 404) only if   *)
(* an earlier call had patched the marker onto a pod named P with success. *)
(* In particular a call made after one that wrote P's tracking entry and   *)
(* then failed to patch the marker, no call having marked a pod named P,   *)
(* is not answered with a success-equivalent response.                     *)
(***************************************************************************)
MarkedByCall(q, name) ==
    /\ Done(q) /\ req[q].name = name
    /\ Called(q, "ReschedulePod") /\ req[q].err = NoError

TrackedThenMarkerFailed(q, name) ==
    /\ Done(q) /\ req[q].name = name
    /\ Called(q, "PatchRescheduleHookPodsList")
    /\ req[q].err = "ReschedulePod"

C35_NotFoundLeavesEntry ==
    /\ [](\A r \in Reqs : PodNotFound(r) => req[r].calls = <<"GetPod">>)
    /\ [][\A r \in Reqs :
             (req[r].pc = "idle" /\ PodNotFound(r)') =>
                 /\ clusters' = clusters
                 /\ pods' = pods]_vars
    /\ [][\A c \in DOMAIN clusters, P \in PodNames :
             (/\ pods[P] = NoPod
              /\ Tracked(c, P) /\ ~Tracked(c, P)') =>
                 \E r \in Reqs :
                    /\ req[r].pc = "PatchList" /\ req'[r] # req[r]
                    /\ Fetched(r) /\ req[r].pod.name = P
                    /\ Managed(req[r].pod) /\ ~Marked(req[r].pod)]_vars

(***************************************************************************)
(* C36: PatchRescheduleHookPodsList on an existing cluster resource sets   *)
(* the tracked-pods list annotation to the JSON encoding of a non-empty    *)
(* list (which decodes to that list again) and removes the annotation for  *)
(* the empty list; in both cases every other annotation keeps its value,   *)
(* no annotation is added, and the spec of the resource is unchanged.      *)
(***************************************************************************)
Patched(r, list) ==
    /\ Done(r) /\ req[r].list = list
    /\ req[r].calls = <<"PatchRescheduleHookPodsList">>

C36_PatchSetsOrRemovesListOnly ==
    [][\A r \in Reqs, c \in ClusterNames, list \in AccessorLists :
          (~Done(r) /\ Patched(r, list)' /\ c \in DOMAIN clusters) =>
              LET old == clusters[c].annotations
                  new == clusters'[c].annotations
              IN  /\ req'[r].err = NoError
                  /\ list = <<>> =>
                        ~Exists(new, RescheduleHookPodsListAnnotation)
                  /\ list # <<>> =>
                        /\ Exists(new, RescheduleHookPodsListAnnotation)
                        /\ new[RescheduleHookPodsListAnnotation]
                              = JsonMarshal(list)
                        /\ JsonUnmarshal(new[RescheduleHookPodsListAnnotation])
                              = list
                  /\ DOMAIN new \ {RescheduleHookPodsListAnnotation}
                        = DOMAIN old \ {RescheduleHookPodsListAnnotation}
                  /\ \A k \in DOMAIN old \ {RescheduleHookPodsListAnnotation} :
                        new[k] = old[k]
                  /\ clusters'[c].spec = clusters[c].spec]_vars

(* The empty list was patched onto a cluster resource that carried a list, *)
(* flags and another annotation, after a two-pod list had been patched     *)
(* onto it: the list annotation is gone and the rest is in place.          *)
C36_Witness ==
    \E r \in Reqs, c \in ClusterNames :
        /\ r > 1 /\ Patched(r, <<>>)
        /\ \E list \in AccessorLists : Len(list) = 2 /\ Patched(r - 1, list)
        /\ c \in DOMAIN clusters
        /\ Exists(clusters[c].spec, InPlaceUpgradeStrategyKey)
        /\ DOMAIN clusters[c].annotations
              = AccessorKeys \ {RescheduleHookPodsListAnnotation}
====
